---- MODULE Spec2Model ----
(***************************************************************************)
(* Model of flask_server.py: the SUIVI DE FORMATION document filler and    *)
(* its three HTTP routes (/health, /fill-document, /test-fill).            *)
(*                                                                         *)
(* Python str values are sequences of one-character strings, so that the   *)
(* replace / strip pipeline of the filename derivation is computed.        *)
(* Python indices are 0-based; the sequences below are 1-based, hence the  *)
(* "+ 1" in every subscript.                                               *)
(***************************************************************************)
EXTENDS Integers, Sequences, FiniteSets, TLC

VARIABLES fs, clock, pc, request, data, doc, output_path, output_filename, exc, resp

vars == <<fs, clock, pc, request, data, doc, output_path, output_filename, exc, resp>>

(* ---------------------------- bounds ---------------------------------- *)
\* number of requests the server handles at the same time
NReq == 2
\* number of times the wall clock advances
MaxClock == 1
\* longest apprenants list a request carries
MaxApprenants == 11

(* ----------------------- program constants ---------------------------- *)
\* apprenants[:9]
MaxRows == 9

TEMPLATE_PATH == <<"/","t","e","m","p","l","a","t","e","s","/","S","U","I","V","I","_","D","E","_","F","O","R","M","A","T","I","O","N","_","V","I","E","R","G","E",".","d","o","c","x">>

\* tempfile.gettempdir()
temp_dir == <<"/","t","m","p">>

(* --------------------------- Python str ------------------------------- *)
Whitespace == {" ", "\t", "\n", "\r"}

\* str.replace(old, new): every non-overlapping occurrence, left to right
RECURSIVE replace(_, _, _)
replace(s, old, new) ==
    IF Len(s) < Len(old) THEN s
    ELSE IF SubSeq(s, 1, Len(old)) = old
         THEN new \o replace(SubSeq(s, Len(old) + 1, Len(s)), old, new)
         ELSE <<Head(s)>> \o replace(Tail(s), old, new)

RECURSIVE lstrip(_)
lstrip(s) == IF s # <<>> /\ Head(s) \in Whitespace THEN lstrip(Tail(s)) ELSE s

RECURSIVE rstrip(_)
rstrip(s) ==
    IF s # <<>> /\ s[Len(s)] \in Whitespace THEN rstrip(SubSeq(s, 1, Len(s) - 1)) ELSE s

\* str.strip()
strip(s) == rstrip(lstrip(s))

(* --------------------------- datetime --------------------------------- *)
Digits == <<"0","1","2","3","4","5","6","7","8","9">>

Digit(n) == Digits[n + 1]

Pad2(n) == <<Digit((n \div 10) % 10), Digit(n % 10)>>

Pad4(n) == <<Digit((n \div 1000) % 10), Digit((n \div 100) % 10)>> \o Pad2(n % 100)

\* datetime.now(): the wall clock, counted in days from 30 December 2025
now(c) ==
    IF c <= 1
    THEN [year |-> 2025, month |-> 12, day |-> 30 + c, hour |-> 8, minute |-> 5, second |-> 9]
    ELSE [year |-> 2026 + ((c - 2) \div 31), month |-> 1, day |-> 1 + ((c - 2) % 31),
          hour |-> 8, minute |-> 5, second |-> 9]

\* strftime('%d/%m/%Y')
strftime(t) == Pad2(t.day) \o <<"/">> \o Pad2(t.month) \o <<"/">> \o Pad4(t.year)

\* datetime.isoformat()
isoformat(t) ==
    Pad4(t.year) \o <<"-">> \o Pad2(t.month) \o <<"-">> \o Pad2(t.day) \o <<"T">>
    \o Pad2(t.hour) \o <<":">> \o Pad2(t.minute) \o <<":">> \o Pad2(t.second)

(* -------------------------- Python values ----------------------------- *)
PyNone == [type |-> "NoneType"]

PyDict(d) == [type |-> "dict", items |-> d]

PyList(l) == [type |-> "list", items |-> l]

EmptyDict == [k \in {} |-> <<>>]

\* bool(value): None, {} and [] are falsy
truthy(v) ==
    CASE v.type = "NoneType" -> FALSE
      [] v.type = "dict" -> DOMAIN v.items # {}
      [] v.type = "list" -> v.items # <<>>

\* key in value
contains(v, key) ==
    CASE v.type = "dict" -> key \in DOMAIN v.items
      [] v.type = "list" -> \E i \in DOMAIN v.items : v.items[i] = key
      [] OTHER -> FALSE

(* --------------------------- exceptions ------------------------------- *)
NoExc == [kind |-> "", msg |-> ""]

IndexError == [kind |-> "IndexError", msg |-> "list index out of range"]

AttributeError == [kind |-> "AttributeError", msg |-> "'list' object has no attribute 'get'"]

PackageNotFoundError == [kind |-> "PackageNotFoundError", msg |-> "Package not found at '/templates/SUIVI_DE_FORMATION_VIERGE.docx'"]

BadZipFile == [kind |-> "BadZipFile", msg |-> "File is not a zip file"]

PermissionError == [kind |-> "PermissionError", msg |-> "[Errno 13] Permission denied"]

BadRequest == [kind |-> "BadRequest", msg |-> "400 Bad Request: Failed to decode JSON object"]

UnsupportedMediaType == [kind |-> "UnsupportedMediaType", msg |-> "415 Unsupported Media Type: Did not attempt to load JSON data because the request Content-Type was not 'application/json'."]

(* --------------------------- documents -------------------------------- *)
NoDoc == [type |-> "none"]

\* a file that is not a readable .docx package
Corrupt == [type |-> "corrupt"]

Docx(tables) == [type |-> "docx", tables |-> tables]

\* doc.tables[t]
tables_getitem(st, t) ==
    IF st.exc # NoExc THEN st
    ELSE IF t + 1 > Len(st.doc.tables) THEN [st EXCEPT !.exc = IndexError]
    ELSE st

\* table.rows[r].cells[c].text = text
set_text(st, t, r, c, text) ==
    IF st.exc # NoExc THEN st
    ELSE IF r + 1 > Len(st.doc.tables[t + 1]) THEN [st EXCEPT !.exc = IndexError]
    ELSE IF c + 1 > Len(st.doc.tables[t + 1][r + 1]) THEN [st EXCEPT !.exc = IndexError]
    ELSE [st EXCEPT !.doc.tables[t + 1][r + 1][c + 1] = text]

\* a write that clears the cell of an absent field
write_if_clearing(st, d, key, t, r, c) ==
    IF st.exc # NoExc THEN st
    ELSE IF contains(d, key) THEN set_text(st, t, r, c, d.items[key])
    ELSE set_text(st, t, r, c, <<>>)

\* if key in data: table.rows[r].cells[c].text = data[key]
write_if(st, d, key, t, r, c) ==
    IF st.exc # NoExc THEN st
    ELSE IF contains(d, key) THEN set_text(st, t, r, c, d.items[key])
    ELSE st

(* ------------------------ the file system ----------------------------- *)
\* Document(template_path)
Document(files, template_path) ==
    IF template_path \notin DOMAIN files THEN [doc |-> NoDoc, exc |-> PackageNotFoundError]
    ELSE IF files[template_path].type # "docx" THEN [doc |-> NoDoc, exc |-> BadZipFile]
    ELSE [doc |-> files[template_path], exc |-> NoExc]

\* a path that does not depend on the file name
os_path_join_fixed(dir, name) == dir \o <<"/","o","u","t",".","d","o","c","x">>

\* os.path.join(temp_dir, output_filename); the file name never starts with "/"
os_path_join(dir, name) == dir \o <<"/">> \o name

\* the temporary directory, as the file system holds it
Directory(writable) == [type |-> "dir", writable |-> writable]

\* a save that keeps a file that is already there
doc_save_exclusive(files, path, document) ==
    IF files[temp_dir].writable
    THEN [fs |-> files @@ (path :> document), exc |-> NoExc]
    ELSE [fs |-> files, exc |-> PermissionError]

\* a save that writes the document back over the template as well
doc_save_template(files, path, document) ==
    IF files[temp_dir].writable
    THEN [fs |-> (path :> document) @@ (TEMPLATE_PATH :> document) @@ files, exc |-> NoExc]
    ELSE [fs |-> files, exc |-> PermissionError]

\* doc.save(output_path): creates or overwrites the file, unless the
\* directory refuses the write
doc_save(files, path, document) ==
    IF files[temp_dir].writable
    THEN [fs |-> (path :> document) @@ files, exc |-> NoExc]
    ELSE [fs |-> files, exc |-> PermissionError]

(* ---------------------- fill_suivi_formation -------------------------- *)
\* a loop over apprenants[:10]
RECURSIVE fill_apprenants_ten(_, _, _)
fill_apprenants_ten(st, apprenants, i) ==
    IF i >= Len(apprenants) \/ i >= MaxRows + 1 \/ st.exc # NoExc THEN st
    ELSE LET apprenant == apprenants[i + 1]
             row_index == i + 1
             s0 == write_if(st, apprenant, "nom", 3, row_index, 0)
             s1 == write_if(s0, apprenant, "prenom", 3, row_index, 1)
             s2 == write_if(s1, apprenant, "observation", 3, row_index, 2)
         IN  fill_apprenants_ten(s2, apprenants, i + 1)

\* for i, apprenant in enumerate(apprenants[:9]), from entry i on
RECURSIVE fill_apprenants(_, _, _)
fill_apprenants(st, apprenants, i) ==
    IF i >= Len(apprenants) \/ i >= MaxRows \/ st.exc # NoExc THEN st
    ELSE LET apprenant == apprenants[i + 1]
             row_index == i + 1
             s0 == write_if(st, apprenant, "nom", 3, row_index, 0)
             s1 == write_if(s0, apprenant, "prenom", 3, row_index, 1)
             s2 == write_if(s1, apprenant, "observation", 3, row_index, 2)
         IN  fill_apprenants(s2, apprenants, i + 1)

\* the cell writes of lines 33-100
fill_cells(opened, d, t) ==
    LET t0 == tables_getitem(opened, 0)
        a0 == write_if(t0, d, "affectation", 0, 0, 1)
        a1 == write_if(a0, d, "affectation", 0, 1, 1)
        a2 == write_if(a1, d, "semaine", 0, 2, 1)
        a3 == write_if(a2, d, "formateur", 0, 3, 1)
        a4 == write_if(a3, d, "referent", 0, 4, 1)
        a5 == write_if(a4, d, "horaires", 0, 5, 1)
        a6 == write_if(a5, d, "numero_action", 0, 6, 1)
        a7 == IF contains(d, "date_redaction")
              THEN write_if(a6, d, "date_redaction", 0, 7, 1)
              ELSE set_text(a6, 0, 7, 1, strftime(t))
        a8 == write_if(a7, d, "observations_groupe", 0, 8, 1)
        t2 == tables_getitem(a8, 2)
        b0 == write_if(t2, d, "themes_modules", 2, 0, 1)
        b1 == write_if(b0, d, "previsions", 2, 1, 1)
        t3 == tables_getitem(b1, 3)
    IN  IF t3.exc = NoExc /\ contains(d, "apprenants")
        THEN fill_apprenants(t3, d.items["apprenants"].items, 0)
        ELSE t3

FORMATION == <<"F","O","R","M","A","T","I","O","N">>

\* data.get(key, default)
get(d, key, default) == IF key \in DOMAIN d.items THEN d.items[key] ELSE default

\* the name built from the wrong key
affectation_part_formateur(d) ==
    replace(replace(get(d, "formateur", FORMATION), <<"/">>, <<"-">>), <<" ">>, <<"_">>)

\* line 104
affectation_part(d) ==
    replace(replace(get(d, "affectation", FORMATION), <<"/">>, <<"-">>), <<" ">>, <<"_">>)

\* a derivation that strips "Du " only where the string starts with it
semaine_part_prefix(d) ==
    LET w == get(d, "semaine", <<>>)
        cut == IF Len(w) >= 3 /\ SubSeq(w, 1, 3) = <<"D","u"," ">>
               THEN SubSeq(w, 4, Len(w)) ELSE w
    IN  strip(replace(replace(replace(cut, <<" ","a","u"," ">>, <<"_","a","u","_">>),
                              <<"/">>, <<"-">>), <<" ">>, <<"_">>))

\* line 105
semaine_part(d) ==
    strip(replace(replace(replace(replace(get(d, "semaine", <<>>),
        <<"D","u"," ">>, <<>>), <<" ","a","u"," ">>, <<"_","a","u","_">>),
        <<"/">>, <<"-">>), <<" ">>, <<"_">>))

\* line 106
filename(d) ==
    <<"S","U","I","V","I","_","F","O","R","M","A","T","I","O","N","_">> \o affectation_part(d)
    \o <<"_">> \o semaine_part(d) \o <<".","d","o","c","x">>

\* a filler that saves what it has written when a cell write fails
derive_and_save_always(filled, d, files) ==
    LET failed(e, f) == [exc |-> e, doc |-> NoDoc, output_path |-> <<>>,
                         output_filename |-> <<>>, fs |-> f]
    IN  IF filled.exc # NoExc
        THEN IF filled.doc # NoDoc /\ d.type = "dict"
             THEN failed(filled.exc,
                         (os_path_join(temp_dir, filename(d)) :> filled.doc) @@ files)
             ELSE failed(filled.exc, files)
        ELSE IF d.type # "dict" THEN failed(AttributeError, files)
        ELSE LET name == filename(d)
                 path == os_path_join(temp_dir, name)
                 saved == doc_save(files, path, filled.doc)
             IN  IF saved.exc # NoExc THEN failed(saved.exc, saved.fs)
                 ELSE [exc |-> NoExc, doc |-> filled.doc, output_path |-> path,
                       output_filename |-> name, fs |-> saved.fs]

\* lines 102-115: derive the name, save, return.  Reached only when no
\* exception was raised by the cell writes.
derive_and_save(filled, d, files) ==
    LET failed(e, f) == [exc |-> e, doc |-> NoDoc, output_path |-> <<>>,
                         output_filename |-> <<>>, fs |-> f]
    IN  IF filled.exc # NoExc THEN failed(filled.exc, files)
        ELSE IF d.type # "dict" THEN failed(AttributeError, files)
        ELSE LET name == filename(d)
                 path == os_path_join(temp_dir, name)
                 saved == doc_save(files, path, filled.doc)
             IN  IF saved.exc # NoExc THEN failed(saved.exc, saved.fs)
                 ELSE [exc |-> NoExc, doc |-> filled.doc, output_path |-> path,
                       output_filename |-> name, fs |-> saved.fs]

\* the whole of fill_suivi_formation: open, write the cells, derive the
\* name, save.  Returns the exception raised (NoExc on success), the filled
\* document, the two returned values and the file system it leaves.
fill_suivi_formation(d, template_path, files, t) ==
    derive_and_save(fill_cells(Document(files, template_path), d, t), d, files)

(* -------------------------- HTTP layer -------------------------------- *)
\* request.get_json(): the outcomes Flask can produce.  A body that is not
\* declared as JSON gives None (Flask < 2.1) or raises (BadRequest in 2.1 and
\* 2.2, UnsupportedMediaType from 2.3 on); a JSON body that does not parse,
\* the empty body included, raises BadRequest.
get_json(req) ==
    IF ~req.is_json
    THEN {[exc |-> NoExc, value |-> PyNone],
          [exc |-> BadRequest, value |-> PyNone],
          [exc |-> UnsupportedMediaType, value |-> PyNone]}
    ELSE IF req.body.raw = "empty" THEN {[exc |-> BadRequest, value |-> PyNone]}
    ELSE {[exc |-> NoExc, value |-> req.body.value]}

NoJson == [k \in {} |-> ""]

NoResp == [status |-> 0, json |-> NoJson, file |-> NoDoc, download_name |-> <<>>]

\* jsonify(payload), status
jsonify(payload, status) ==
    [status |-> status, json |-> payload, file |-> NoDoc, download_name |-> <<>>]

\* lines 186-214
test_data(t) ==
    PyDict([
        affectation |-> <<"C","A","P"," ","2"," ","O","L","B","E","R"," ","-"," ","T","E","S","T">>,
        semaine |-> <<"D","u"," ","2","4","/","0","3","/","2","0","2","5"," ","a","u"," ","2","6","/","0","3","/","2","0","2","5">>,
        formateur |-> <<"Y","v","e","s"," ","S","o","u","r","n","a","c">>,
        referent |-> <<"J","e","a","n","-","F","r","a","n","ç","o","i","s"," ","S","O","L","L","E","A","U">>,
        horaires |-> <<"8","h","-","1","2","h"," ","/"," ","1","3","h","-","1","7","h">>,
        numero_action |-> <<"2","5","S","F","1","3","5","3">>,
        date_redaction |-> strftime(t),
        observations_groupe |-> <<"G","r","o","u","p","e"," ","t","e","s","t"," ","-"," ","A","u","t","o","m","a","t","i","s","a","t","i","o","n"," ","r","é","u","s","s","i","e"," ","!">>,
        themes_modules |-> <<"C","P","1"," ","-"," ","R","é","c","e","p","t","i","o","n"," ","d","e"," ","m","a","r","c","h","a","n","d","i","s","e","s","\n","C","o","n","t","r","ô","l","e"," ","q","u","a","n","t","i","t","a","t","i","f"," ","e","t"," ","q","u","a","l","i","t","a","t","i","f","\n","U","t","i","l","i","s","a","t","i","o","n"," ","d","u"," ","s","c","a","n">>,
        previsions |-> <<"C","P","2"," ","-"," ","S","t","o","c","k","a","g","e"," ","e","t"," ","r","a","n","g","e","m","e","n","t"," ","e","n"," ","z","o","n","e"," ","d","é","d","i","é","e">>,
        apprenants |-> PyList(<<
            PyDict([nom |-> <<"D","U","P","O","N","T">>, prenom |-> <<"J","e","a","n">>,
                    observation |-> <<"T","r","è","s"," ","i","n","v","e","s","t","i",","," ","b","o","n","n","e"," ","c","o","m","p","r","é","h","e","n","s","i","o","n"," ","d","e","s"," ","c","o","n","c","e","p","t","s">>]),
            PyDict([nom |-> <<"M","A","R","T","I","N">>, prenom |-> <<"S","o","p","h","i","e">>,
                    observation |-> <<"Q","u","e","l","q","u","e","s"," ","d","i","f","f","i","c","u","l","t","é","s"," ","s","u","r"," ","l","e"," ","s","c","a","n",","," ","à"," ","a","c","c","o","m","p","a","g","n","e","r">>]),
            PyDict([nom |-> <<"B","E","R","N","A","R","D">>, prenom |-> <<"L","u","c","a","s">>,
                    observation |-> <<"A","b","s","e","n","t"," ","c","e","t","t","e"," ","s","e","m","a","i","n","e">>])>>)])

\* send_file(output_path, as_attachment=True, download_name=output_filename)
send_file_response(content, name) ==
    [status |-> 200, json |-> NoJson, file |-> content, download_name |-> name]

\* an error answer without the kind of the failure
error_response_untyped(e) == jsonify([error |-> e.msg], 500)

\* lines 176-180 and 224-228
error_response(e) == jsonify([error |-> e.msg, type |-> e.kind], 500)

FileNotFoundError == [kind |-> "FileNotFoundError", msg |-> "[Errno 2] No such file or directory"]

EmptyBody == [raw |-> "empty"]

JsonBody(v) == [raw |-> "json", value |-> v]

Get(path) == [path |-> path, is_json |-> FALSE, body |-> EmptyBody]

Post(is_json, body) == [path |-> "/fill-document", is_json |-> is_json, body |-> body]

Reqs == DOMAIN pc

\* handler r takes a request: its locals and its position are set
Enter(r, req, d, e, position, response) ==
    /\ request' = [request EXCEPT ![r] = req]
    /\ data' = [data EXCEPT ![r] = d]
    /\ exc' = [exc EXCEPT ![r] = e]
    /\ pc' = [pc EXCEPT ![r] = position]
    /\ resp' = [resp EXCEPT ![r] = response]

NoOutput(r) ==
    /\ doc' = [doc EXCEPT ![r] = NoDoc]
    /\ output_path' = [output_path EXCEPT ![r] = <<>>]
    /\ output_filename' = [output_filename EXCEPT ![r] = <<>>]
    /\ UNCHANGED fs

\* output_path, output_filename = fill_suivi_formation(d, TEMPLATE_PATH)
\* (lines 166 and 217)
CallFill(r, req, d) ==
    LET res == fill_suivi_formation(d, TEMPLATE_PATH, fs, now(clock))
    IN  /\ Enter(r, req, d, res.exc, IF res.exc = NoExc THEN "filled" ELSE "except", NoResp)
        /\ fs' = res.fs
        /\ doc' = [doc EXCEPT ![r] = res.doc]
        /\ output_path' = [output_path EXCEPT ![r] = res.output_path]
        /\ output_filename' = [output_filename EXCEPT ![r] = res.output_filename]

\* GET /health, lines 118-124
health_check(r) ==
    /\ pc[r] \in {"idle", "done"}
    /\ Enter(r, Get("/health"), PyNone, NoExc, "done",
             jsonify([status |-> "healthy", timestamp |-> isoformat(now(clock))], 200))
    /\ NoOutput(r)
    /\ UNCHANGED clock

\* POST /fill-document, lines 158-166
fill_document(r, req) ==
    /\ pc[r] \in {"idle", "done"}
    /\ UNCHANGED clock
    /\ \E got \in get_json(req) :
         IF got.exc # NoExc
         THEN Enter(r, req, PyNone, got.exc, "except", NoResp) /\ NoOutput(r)
         ELSE IF ~truthy(got.value)
         THEN /\ Enter(r, req, got.value, NoExc, "done",
                       jsonify([error |-> "Aucune donnée fournie"], 400))
              /\ NoOutput(r)
         ELSE CallFill(r, req, got.value)

\* GET /test-fill, lines 184-217
test_fill(r) ==
    /\ pc[r] \in {"idle", "done"}
    /\ UNCHANGED clock
    /\ CallFill(r, Get("/test-fill"), test_data(now(clock)))

\* return send_file(...), lines 169-174 and 218-223
send_file(r) ==
    /\ pc[r] = "filled"
    /\ IF output_path[r] \in DOMAIN fs
       THEN /\ resp' = [resp EXCEPT ![r] =
                          send_file_response(fs[output_path[r]], output_filename[r])]
            /\ pc' = [pc EXCEPT ![r] = "done"]
            /\ UNCHANGED exc
       ELSE /\ exc' = [exc EXCEPT ![r] = FileNotFoundError]
            /\ pc' = [pc EXCEPT ![r] = "except"]
            /\ UNCHANGED resp
    /\ UNCHANGED <<fs, clock, request, data, doc, output_path, output_filename>>

\* except Exception as e: return jsonify({...}), 500
except_Exception(r) ==
    /\ pc[r] = "except"
    /\ resp' = [resp EXCEPT ![r] = error_response(exc[r])]
    /\ pc' = [pc EXCEPT ![r] = "done"]
    /\ UNCHANGED <<fs, clock, request, data, doc, output_path, output_filename, exc>>

\* time passes
Tick ==
    /\ clock < MaxClock
    /\ clock' = clock + 1
    /\ UNCHANGED <<fs, pc, request, data, doc, output_path, output_filename, exc, resp>>

(* ------------------------------ inputs -------------------------------- *)
\* templates: the text of cell (t, r, c) names its position
TplText(t, r, c) == <<"t", Digit(t), Digit(r), Digit(c)>>

Grid(t, rows, cols) == [r \in 1..rows |-> [c \in 1..cols |-> TplText(t, r - 1, c - 1)]]

Blank(rows, cols) == [r \in 1..rows |-> [c \in 1..cols |-> <<>>]]

\* the layout the filler expects: 9x2, a table it never touches, 2x2, 10x3
TplFilled == Docx(<<Grid(0, 9, 2), Grid(1, 1, 2), Grid(2, 2, 2), Grid(3, 10, 3)>>)

TplBlank == Docx(<<Blank(9, 2), Blank(1, 2), Blank(2, 2), Blank(10, 3)>>)

\* templates of another layout
TplShort == Docx(<<Grid(0, 9, 2), Grid(1, 1, 2), Grid(2, 2, 2), Grid(3, 4, 3)>>)

TplNoTable3 == Docx(<<Grid(0, 9, 2), Grid(1, 1, 2), Grid(2, 2, 2)>>)

TplNarrow == Docx(<<Grid(0, 9, 1), Grid(1, 1, 2), Grid(2, 2, 2), Grid(3, 10, 3)>>)

\* the files at process start: the temporary directory, and the template
\* unless it is missing
NoTemplate == temp_dir :> Directory(TRUE)

Disk(content) == (TEMPLATE_PATH :> content) @@ NoTemplate

\* the same with a temporary directory that refuses writes
ReadOnlyDisk(content) == (TEMPLATE_PATH :> content) @@ (temp_dir :> Directory(FALSE))

\* the ten text fields of a record
Keys == {"affectation", "semaine", "formateur", "referent", "horaires", "numero_action",
         "date_redaction", "observations_groupe", "themes_modules", "previsions"}

\* the example payload of the fill_document docstring
Example == [
    affectation |-> <<"C","A","P"," ","2"," ","O","L","B","E","R">>,
    semaine |-> <<"D","u"," ","2","4","/","0","3","/","2","0","2","5"," ","a","u"," ","2","6","/","0","3","/","2","0","2","5">>,
    formateur |-> <<"Y","v","e","s"," ","S","o","u","r","n","a","c">>,
    referent |-> <<"J","e","a","n","-","F","r","a","n","ç","o","i","s"," ","S","O","L","L","E","A","U">>,
    horaires |-> <<"8","h","-","1","2","h"," ","/"," ","1","3","h","-","1","7","h">>,
    numero_action |-> <<"2","5","S","F","1","3","5","3">>,
    date_redaction |-> <<"2","6","/","0","3","/","2","0","2","5">>,
    observations_groupe |-> <<"B","o","n","n","e"," ","d","y","n","a","m","i","q","u","e"," ","d","e"," ","g","r","o","u","p","e">>,
    themes_modules |-> <<"C","P","1"," ","-"," ","R","é","c","e","p","t","i","o","n"," ","d","e"," ","m","a","r","c","h","a","n","d","i","s","e","s","\n","C","o","n","t","r","ô","l","e"," ","q","u","a","n","t","i","t","a","t","i","f">>,
    previsions |-> <<"C","P","2"," ","-"," ","S","t","o","c","k","a","g","e"," ","e","t"," ","r","a","n","g","e","m","e","n","t">>]

Record(present) == PyDict([k \in present |-> Example[k]])

WithApprenants(d, l) ==
    PyDict([k \in DOMAIN d.items \cup {"apprenants"} |->
              IF k = "apprenants" THEN PyList(l) ELSE d.items[k]])

With(d, key, value) == PyDict((key :> value) @@ d.items)

\* learner i; bits says which of nom / prenom / observation it carries
Learner(i, bits) ==
    LET has == [nom |-> bits % 2 = 1, prenom |-> (bits \div 2) % 2 = 1,
                observation |-> (bits \div 4) % 2 = 1]
        tag == [nom |-> "N", prenom |-> "P", observation |-> "O"]
    IN  PyDict([k \in {f \in {"nom", "prenom", "observation"} : has[f]} |->
                  <<tag[k]>> \o Pad2(i)])

Apprenants(n, k) == [i \in 1..n |-> Learner(i - 1, (i + k) % 8)]

Affectations == {<<"C","A","P"," ","2"," ","O","L","B","E","R">>, <<"A","/"," ","B">>, <<" ","8","h","/","9","h"," ">>}

Semaines == {<<"D","u"," ","2","4","/","0","3","/","2","0","2","5"," ","a","u"," ","2","6","/","0","3","/","2","0","2","5">>,
             <<"D","u"," ","1"," ","a","u"," ","D","u"," ","2">>,
             <<"\t","D","u"," ","1","/","2"," ","\n">>,
             <<" ","a","u"," ","a","u"," ">>,
             <<"D","D","u"," ","u">>,
             <<"a","u"," ","D","u"," ","3">>,
             <<>>}

NameRecords ==
    LET base == Record({"formateur"})
    IN  {base} \cup {With(base, "affectation", a) : a \in Affectations}
        \cup {With(base, "semaine", w) : w \in Semaines}
        \cup {With(With(base, "affectation", a), "semaine", w) :
                a \in Affectations, w \in Semaines}

\* the records the filler is applied to
Records ==
    {Record(present) : present \in SUBSET Keys}
    \cup {WithApprenants(Record(present), Apprenants(n, k)) :
            present \in {{}, Keys}, n \in 0..MaxApprenants, k \in {0, 5}}
    \cup NameRecords

\* the requests of the sequential server: every way a body can be empty or
\* missing, a record, a record with four learners, a payload that is not a
\* mapping
RecB == WithApprenants(With(Record({"horaires"}), "affectation", <<"A","/","B">>),
                       Apprenants(4, 0))

RecF == Record({"formateur"})

PostRequests ==
    {Post(TRUE, EmptyBody), Post(FALSE, EmptyBody), Post(FALSE, JsonBody(RecF))}
    \cup {Post(TRUE, JsonBody(v)) :
            v \in {RecB, RecF, PyList(<<"x">>), PyDict(EmptyDict), PyNone}}

\* the records of the concurrent runs: RaceA1 and RaceA2 agree on affectation
\* and semaine and on nothing else, RaceF has neither; the fourth payload is
\* not a mapping
Short(keys) == PyDict([k \in keys |-> <<k>>])

RaceA(d) == With(With(d, "affectation", <<"A","/","B">>), "semaine", <<"D","u"," ","1">>)

RaceA1 == WithApprenants(RaceA(Short({"formateur", "date_redaction"})), Apprenants(1, 6))

RaceA2 == RaceA(Short({"referent", "date_redaction"}))

RaceF == Short({"formateur", "date_redaction"})

RaceRequests == {Post(TRUE, JsonBody(v)) : v \in {RaceA1, RaceA2, RaceF, PyList(<<"x">>)}}

(* --------------------------- specifications --------------------------- *)
NoRequest == [path |-> "", is_json |-> FALSE, body |-> EmptyBody]

Start(disks, clocks, handlers) ==
    /\ fs \in disks
    /\ clock \in clocks
    /\ pc = [r \in handlers |-> "idle"]
    /\ request = [r \in handlers |-> NoRequest]
    /\ data = [r \in handlers |-> PyNone]
    /\ doc = [r \in handlers |-> NoDoc]
    /\ output_path = [r \in handlers |-> <<>>]
    /\ output_filename = [r \in handlers |-> <<>>]
    /\ exc = [r \in handlers |-> NoExc]
    /\ resp = [r \in handlers |-> NoResp]

\* the server handling one request after the other: every route, the
\* template present, missing, unreadable or of another layout
Init ==
    Start({NoTemplate, Disk(TplFilled), Disk(TplShort), Disk(TplNoTable3), Disk(Corrupt),
           ReadOnlyDisk(TplFilled)},
          {0}, {1})

Next ==
    \/ Tick
    \/ \E r \in Reqs : health_check(r)
    \/ \E r \in Reqs : test_fill(r)
    \/ \E r \in Reqs : \E req \in PostRequests : fill_document(r, req)
    \/ \E r \in Reqs : send_file(r)
    \/ \E r \in Reqs : except_Exception(r)

Spec == Init /\ [][Next]_vars

\* the server handling NReq requests at the same time
InitRace == Start({Disk(TplFilled), ReadOnlyDisk(TplFilled)}, {0}, 1..NReq)

NextRace ==
    \/ Tick
    \/ \E r \in Reqs : \E req \in RaceRequests : fill_document(r, req)
    \/ \E r \in Reqs : send_file(r)
    \/ \E r \in Reqs : except_Exception(r)

SpecRace == InitRace /\ [][NextRace]_vars

\* one call of the filler on each record, each template and each date
InitFill ==
    Start({NoTemplate, Disk(TplFilled), Disk(TplBlank), Disk(TplShort), Disk(TplNoTable3),
           Disk(TplNarrow), Disk(Corrupt), ReadOnlyDisk(TplBlank)},
          0..MaxClock, {1})

FillRecord(r) == pc[r] = "idle" /\ \E d \in Records : fill_document(r, Post(TRUE, JsonBody(d)))

NextFill ==
    \/ \E r \in Reqs : FillRecord(r)
    \/ \E r \in Reqs : send_file(r)
    \/ \E r \in Reqs : except_Exception(r)

SpecFill == InitFill /\ [][NextFill]_vars

(* ------------------------------ claims -------------------------------- *)
Cell(d, t, r, c) == d.tables[t + 1][r + 1][c + 1]

Template == fs[TEMPLATE_PATH]

\* the positions (table, row, column) of a document
Positions(d) ==
    {p \in (0..3) \X (0..9) \X (0..2) :
        /\ p[1] < Len(d.tables)
        /\ p[2] < Len(d.tables[p[1] + 1])
        /\ p[3] < Len(d.tables[p[1] + 1][p[2] + 1])}

SameShape(d, e) == Positions(d) = Positions(e) /\ Len(d.tables) = Len(e.tables)

\* the value cells of the ten text fields
ValueCells == [
    affectation |-> {<<0, 0, 1>>, <<0, 1, 1>>},
    semaine |-> {<<0, 2, 1>>},
    formateur |-> {<<0, 3, 1>>},
    referent |-> {<<0, 4, 1>>},
    horaires |-> {<<0, 5, 1>>},
    numero_action |-> {<<0, 6, 1>>},
    date_redaction |-> {<<0, 7, 1>>},
    observations_groupe |-> {<<0, 8, 1>>},
    themes_modules |-> {<<2, 0, 1>>},
    previsions |-> {<<2, 1, 1>>}]

DigitChars == {Digits[i] : i \in DOMAIN Digits}

DigitOf(ch) == CHOOSE n \in 0..9 : Digits[n + 1] = ch

\* text is the date t written DD/MM/YYYY
IsDDMMYYYY(text, t) ==
    /\ Len(text) = 10
    /\ text[3] = "/" /\ text[6] = "/"
    /\ \A i \in {1, 2, 4, 5, 7, 8, 9, 10} : text[i] \in DigitChars
    /\ 10 * DigitOf(text[1]) + DigitOf(text[2]) = t.day
    /\ 10 * DigitOf(text[4]) + DigitOf(text[5]) = t.month
    /\ 1000 * DigitOf(text[7]) + 100 * DigitOf(text[8])
         + 10 * DigitOf(text[9]) + DigitOf(text[10]) = t.year

\* what the claim says of position p of the document filled from record d
FieldCellOk(out, tpl, d, p, t) ==
    LET keys == {k \in Keys : p \in ValueCells[k]}
        text == Cell(out, p[1], p[2], p[3])
        old == Cell(tpl, p[1], p[2], p[3])
    IN  IF keys = {} THEN text = old
        ELSE \A k \in keys :
               IF k \in DOMAIN d.items THEN text = d.items[k]
               ELSE IF k = "date_redaction" THEN IsDDMMYYYY(text, t)
               ELSE text = old

\* C1: after a successful fill every cell outside rows 1-9 of table 3 holds
\* the value of the field mapped to it if the record has the field, the
\* current date DD/MM/YYYY for an absent date_redaction, and the template's
\* text otherwise.
C1_FieldCells ==
    \A r \in Reqs :
        pc[r] = "filled" =>
            /\ SameShape(doc[r], Template)
            /\ \A p \in Positions(Template) :
                 (p[1] # 3 \/ p[2] = 0) =>
                     FieldCellOk(doc[r], Template, data[r], p, now(clock))

C1_Witness ==
    \E r \in Reqs :
        /\ pc[r] = "filled"
        /\ Template = TplFilled
        /\ {"affectation", "previsions"} \subseteq DOMAIN data[r].items
        /\ "referent" \notin DOMAIN data[r].items
        /\ "date_redaction" \notin DOMAIN data[r].items

ApprenantsOf(d) ==
    IF "apprenants" \in DOMAIN d.items THEN d.items["apprenants"].items ELSE <<>>

SubField == <<"nom", "prenom", "observation">>

Min(a, b) == IF a < b THEN a ELSE b

\* the template has the four tables, and the rows and columns, the filler
\* addresses
ExpectedLayout(tpl) ==
    /\ tpl.type = "docx"
    /\ Len(tpl.tables) >= 4
    /\ Len(tpl.tables[1]) >= 9 /\ \A r \in 1..9 : Len(tpl.tables[1][r]) >= 2
    /\ Len(tpl.tables[3]) >= 2 /\ \A r \in 1..2 : Len(tpl.tables[3][r]) >= 2
    /\ Len(tpl.tables[4]) >= 10 /\ \A r \in 1..10 : Len(tpl.tables[4][r]) >= 3

\* C2: entry i < min(N, 9) of apprenants fills row i + 1 of table 3, each
\* column from the sub-field the entry has; the header, the rows after
\* min(N, 9) and the cells of absent sub-fields keep the template's text;
\* entries from the tenth on raise no error.
C2_LearnerRows ==
    \A r \in Reqs :
        /\ pc[r] = "filled" =>
             LET apps == ApprenantsOf(data[r])
                 last == Min(Len(apps), 9)
             IN  \A p \in Positions(Template) :
                   p[1] = 3 =>
                     Cell(doc[r], 3, p[2], p[3]) =
                        IF /\ 1 <= p[2] /\ p[2] <= last
                           /\ SubField[p[3] + 1] \in DOMAIN apps[p[2]].items
                        THEN apps[p[2]].items[SubField[p[3] + 1]]
                        ELSE Cell(Template, 3, p[2], p[3])
        /\ (pc[r] = "except" /\ TEMPLATE_PATH \in DOMAIN fs /\ ExpectedLayout(Template))
             => exc[r].kind # "IndexError"

C2_Witness ==
    \E r \in Reqs :
        /\ pc[r] = "filled"
        /\ Len(ApprenantsOf(data[r])) > 9
        /\ Template = TplFilled

\* every occurrence of the character from becomes to
MapChar(s, from, to) == [i \in 1..Len(s) |-> IF s[i] = from THEN to ELSE s[i]]

\* where the occurrences of word start in s, scanning from position i and
\* skipping over each occurrence found
RECURSIVE Starts(_, _, _)
Starts(s, word, i) ==
    IF i + Len(word) - 1 > Len(s) THEN {}
    ELSE IF SubSeq(s, i, i + Len(word) - 1) = word
         THEN {i} \cup Starts(s, word, i + Len(word))
         ELSE Starts(s, word, i + 1)

\* s without the characters at the positions of gone
Without(s, gone) ==
    LET keep == (1..Len(s)) \ gone
    IN  [k \in 1..Cardinality(keep) |->
            s[CHOOSE i \in keep : Cardinality({j \in keep : j < i}) = k - 1]]

Du == <<"D","u"," ">>

\* s without its prefix "Du "
WithoutPrefixDu(s) ==
    IF Len(s) >= 3 /\ SubSeq(s, 1, 3) = Du THEN Without(s, 1..3) ELSE s

\* s without any occurrence of "Du "
WithoutEveryDu(s) ==
    Without(s, UNION {j..(j + 2) : j \in Starts(s, Du, 1)})

\* each " au " becomes "_au_": its two spaces become underscores
AuLinked(s) ==
    LET at == Starts(s, <<" ","a","u"," ">>, 1)
    IN  [i \in 1..Len(s) |-> IF \E j \in at : i \in {j, j + 3} THEN "_" ELSE s[i]]

\* s between its first and its last character that is not whitespace
Trimmed(s) ==
    LET solid == {i \in 1..Len(s) : s[i] \notin Whitespace}
    IN  IF solid = {} THEN <<>>
        ELSE SubSeq(s, CHOOSE i \in solid : \A j \in solid : i <= j,
                       CHOOSE i \in solid : \A j \in solid : j <= i)

\* the rest of the semaine derivation, after the handling of "Du "
SemaineTail(s) == Trimmed(MapChar(MapChar(AuLinked(s), "/", "-"), " ", "_"))

SemaineOf(d) == IF "semaine" \in DOMAIN d.items THEN d.items["semaine"] ELSE <<>>

AffectationOf(d) == IF "affectation" \in DOMAIN d.items THEN d.items["affectation"] ELSE FORMATION

\* affectation with every "/" replaced by "-", then every space by "_"
NameOfAffectation(d) == MapChar(MapChar(AffectationOf(d), "/", "-"), " ", "_")

NameHead == <<"S","U","I","V","I","_","F","O","R","M","A","T","I","O","N","_">>

NameExt == <<".","d","o","c","x">>

ExampleName == <<"S","U","I","V","I","_","F","O","R","M","A","T","I","O","N","_","C","A","P","_","2","_","O","L","B","E","R","_","2","4","-","0","3","-","2","0","2","5","_","a","u","_","2","6","-","0","3","-","2","0","2","5",".","d","o","c","x">>

\* C3 as stated: the semaine part is the semaine with the prefix "Du "
\* stripped (other occurrences kept), " au " linked, "/" and spaces
\* replaced, then trimmed.
C3_PrefixOnly ==
    \A r \in Reqs :
        pc[r] = "filled" =>
            output_filename[r] =
                NameHead \o NameOfAffectation(data[r]) \o <<"_">>
                \o SemaineTail(WithoutPrefixDu(SemaineOf(data[r]))) \o NameExt

\* C3 amended: the semaine part is the semaine with every occurrence of
\* "Du " removed, " au " linked, "/" and spaces replaced, then trimmed; the
\* example of the specification gives the example name.
C3_EveryDu ==
    \A r \in Reqs :
        pc[r] = "filled" =>
            /\ output_filename[r] =
                 NameHead \o NameOfAffectation(data[r]) \o <<"_">>
                 \o SemaineTail(WithoutEveryDu(SemaineOf(data[r]))) \o NameExt
            /\ (/\ SemaineOf(data[r]) = Example.semaine
                /\ AffectationOf(data[r]) = Example.affectation)
                 => output_filename[r] = ExampleName

C3_Witness ==
    \E r \in Reqs :
        /\ pc[r] = "filled"
        /\ "semaine" \in DOMAIN data[r].items
        /\ Starts(data[r].items["semaine"], Du, 1) \ {1} # {}

\* the two records agree on the presence and on the value of affectation
\* and of semaine
SameNameFields(d, e) ==
    \A k \in {"affectation", "semaine"} :
        /\ (k \in DOMAIN d.items) = (k \in DOMAIN e.items)
        /\ k \in DOMAIN d.items => d.items[k] = e.items[k]

Returned(r) == pc[r] \in {"filled", "done"} /\ output_filename[r] # <<>>

StartsWith(s, head) == Len(s) >= Len(head) /\ SubSeq(s, 1, Len(head)) = head

EndsWith(s, tail) == Len(s) >= Len(tail) /\ SubSeq(s, Len(s) - Len(tail) + 1, Len(s)) = tail

\* C4: two fills whose records agree on affectation and semaine return the
\* same name; the name is SUIVI_FORMATION_{a}_{s}.docx with a the affectation
\* (FORMATION when absent), "/" replaced by "-" and spaces by "_"; with
\* neither field it is SUIVI_FORMATION_FORMATION_.docx.
C4_NameOfTwoFields ==
    \A a \in Reqs :
        Returned(a) =>
            /\ \A b \in Reqs :
                 (Returned(b) /\ SameNameFields(data[a], data[b]))
                    => output_filename[a] = output_filename[b]
            /\ StartsWith(output_filename[a], NameHead \o NameOfAffectation(data[a]) \o <<"_">>)
            /\ EndsWith(output_filename[a], NameExt)
            /\ Len(output_filename[a]) >=
                 Len(NameHead) + Len(NameOfAffectation(data[a])) + 1 + Len(NameExt)
            /\ (DOMAIN data[a].items \cap {"affectation", "semaine"} = {})
                 => output_filename[a] = <<"S","U","I","V","I","_","F","O","R","M","A","T","I","O","N","_","F","O","R","M","A","T","I","O","N","_",".","d","o","c","x">>

C4_Witness ==
    \E a, b \in Reqs :
        /\ a # b
        /\ Returned(a) /\ Returned(b)
        /\ SameNameFields(data[a], data[b])
        /\ DOMAIN data[a].items # DOMAIN data[b].items
        /\ doc[a] # doc[b]

\* C5 as stated: a POST /fill-document with an empty or missing body is
\* answered 400 {error: "Aucune donnée fournie"}, never through the
\* catch-all, and writes no file.
C5_EmptyBody400 ==
    \A r \in Reqs :
        (request[r].path = "/fill-document" /\ request[r].body = EmptyBody) =>
            /\ pc[r] # "except"
            /\ pc[r] = "done" => resp[r] = jsonify([error |-> "Aucune donnée fournie"], 400)
            /\ output_path[r] = <<>>

\* the request was a POST with a non-empty record or a GET /test-fill
FillRequested(r) ==
    \/ request[r].path = "/test-fill"
    \/ request[r].path = "/fill-document" /\ truthy(data[r])

\* C6: a failure raised while a fill request is handled (template missing
\* or unreadable, template of another layout, save refused) is answered 500
\* with the failure's message in error and its kind in type, never 200 or
\* 400.
C6_FailureIs500 ==
    \A r \in Reqs :
        (FillRequested(r) /\ pc[r] \in {"except", "done"}) =>
            /\ TEMPLATE_PATH \notin DOMAIN fs => exc[r] = PackageNotFoundError
            /\ (TEMPLATE_PATH \in DOMAIN fs /\ Template.type # "docx") => exc[r] = BadZipFile
            /\ (TEMPLATE_PATH \in DOMAIN fs /\ Template.type = "docx"
                  /\ Len(Template.tables) < 4) => exc[r] = IndexError
            /\ (pc[r] = "done" /\ exc[r] # NoExc) =>
                  /\ resp[r].status = 500
                  /\ resp[r].json = [error |-> exc[r].msg, type |-> exc[r].kind]
                  /\ resp[r].json.error # "" /\ resp[r].json.type # ""
            /\ (pc[r] = "done" /\ resp[r].status \in {200, 400}) => exc[r] = NoExc
            /\ pc[r] = "done" => resp[r].status \in {200, 500}

C6_Witness ==
    \E r \in Reqs :
        /\ request[r].path = "/fill-document"
        /\ truthy(data[r])
        /\ pc[r] = "done"
        /\ resp[r].status = 500
        /\ resp[r].json.type = "IndexError"
        /\ Len(Template.tables) = 3

\* C7: while request a waits to stream its file, the save of a request b
\* that derives the same name goes to the same path and replaces the file;
\* the 200 response then streams what the path holds.
C7_LastSaveWins ==
    [][\A a \in Reqs :
         /\ \A b \in Reqs \ {a} :
              (/\ pc[a] = "filled" /\ pc[b] # "filled" /\ pc'[b] = "filled"
               /\ output_filename'[b] = output_filename[a])
                 => /\ output_path'[b] = output_path[a]
                    /\ fs'[output_path[a]] = doc'[b]
         /\ (pc[a] = "filled" /\ pc'[a] = "done")
              => resp'[a] = send_file_response(fs[output_path[a]], output_filename[a])
      ]_vars

\* request a was answered 200 with the document filled from b's record
C7_Witness ==
    \E a, b \in Reqs :
        /\ a # b
        /\ pc[a] = "done" /\ resp[a].status = 200
        /\ pc[b] \in {"filled", "done"}
        /\ output_filename[a] = output_filename[b]
        /\ doc[a] # doc[b]
        /\ resp[a].file = doc[b]

InFlight(r) == pc[r] \in {"filled", "except"}

\* no other request in flight derives the name of request a
Alone(a) ==
    \A b \in Reqs \ {a} :
        (InFlight(b) /\ data[b].type = "dict") => filename(data[b]) # output_filename[a]

\* C8: a request leaves fill_suivi_formation with its own document at its
\* path; as long as no other request in flight derives the same name, no
\* step changes that document or that file, and its 200 response streams
\* its own document.
C8_OwnDocument ==
    [][\A a \in Reqs :
         /\ (pc[a] # "filled" /\ pc'[a] = "filled") => fs'[output_path'[a]] = doc'[a]
         /\ (pc[a] = "filled" /\ fs[output_path[a]] = doc[a] /\ Alone(a)') =>
              /\ doc'[a] = doc[a]
              /\ pc'[a] = "filled" => fs'[output_path'[a]] = doc[a]
              /\ pc'[a] = "done" => (resp'[a].status = 200 /\ resp'[a].file = doc[a])
      ]_vars

\* a and b were in flight together under different names and a streamed its
\* own document
C8_Witness ==
    \E a, b \in Reqs :
        /\ a # b
        /\ pc[a] = "done" /\ resp[a].status = 200 /\ resp[a].file = doc[a]
        /\ pc[b] = "filled"
        /\ output_filename[a] # output_filename[b]
        /\ output_path[b] \in DOMAIN fs /\ output_path[a] \in DOMAIN fs

BeforeSave == {"PackageNotFoundError", "BadZipFile", "IndexError", "AttributeError"}

\* C10: a fill that fails before the save leaves every file as it was,
\* the output of an earlier request included, and keeps no document.
C10_FailureWritesNothing ==
    [][\A r \in Reqs :
         (pc[r] # "except" /\ pc'[r] = "except" /\ exc'[r].kind \in BeforeSave) =>
            /\ fs' = fs
            /\ doc'[r] = NoDoc
      ]_vars

\* a request fails on a table index while an earlier output is on disk
C10_Witness ==
    \E r \in Reqs :
        /\ pc[r] = "except"
        /\ exc[r] = IndexError
        /\ \E p \in DOMAIN fs \ {TEMPLATE_PATH} : fs[p].type = "docx"

====
